---- MODULE Spec2Model ----
(***************************************************************************)
(* Fill or Bust (src/main.py): the scorer, the card deck, the turn loop of *)
(* Game.play_turn and the round-robin of Game.run, as a state machine.     *)
(*                                                                         *)
(* Control positions (pc):                                                 *)
(*   "call"     Game.run is about to call play_turn(players[cur])  (l.350) *)
(*   "loop"     head of play_turn's `while True`, about to roll    (l.188) *)
(*   "prompt"   waiting at the keep/choose/bank prompt             (l.282) *)
(*   "cont"     waiting at the roll-again-or-bank prompt           (l.339) *)
(*   "returned" play_turn has returned `ret` to Game.run           (l.351) *)
(*   "done"     Game.run has returned the winner                   (l.354) *)
(* Prompts that only loop on an unrecognised answer (l.281-284, l.338-339, *)
(* _ack) change no state and are stuttering steps.                         *)
(***************************************************************************)
EXTENDS Integers, Sequences, FiniteSets, TLC

\* ---------------------------------------------------------------- bounds
\* play_turn calls per match
MaxTurns == 3
\* dice values drawn from Game.rng per match, for a roll shown at a prompt
MaxDraws == 10
\* dice values drawn from Game.rng per match, for a roll of an automated
\* player
MaxAutoDraws == 12
\* longest index list that names one die repeatedly at the choose prompt
MaxRepeat == 2
\* cards drawn from one deck, SpecDeck
MaxDeckDraws == 41

\* ------------------------------------------------------- program constants
NumDice == 6
NumFaces == 6
NumPlayers == 2
\* cards in the deck: 6 + 4 + 2 + 3 + 3 + 2 (line 39)
DeckSize == 20
points_to_win == 2000
ai_threshold_points == 500

Faces == 1..NumFaces
Players == 1..NumPlayers

\* ------------------------------------------------------------------ scorer
\* Counter(dice): occurrences of each face (cnt.get(face, 0))
Counter(dice) ==
  [f \in Faces |-> Cardinality({i \in DOMAIN dice : dice[i] = f})]

\* used[face] += n on a collections.Counter: a missing key counts as 0
CounterAdd(used, face, n) ==
  IF face \in DOMAIN used
    THEN [used EXCEPT ![face] = @ + n]
    ELSE [f \in (DOMAIN used) \cup {face} |->
            IF f = face THEN n ELSE used[f]]

\* sum(breakdown.values())
SumValues(used) ==
  LET v(f) == IF f \in DOMAIN used THEN used[f] ELSE 0
      RECURSIVE upto(_)
      upto(f) == IF f = 0 THEN 0 ELSE v(f) + upto(f - 1)
  IN  upto(NumFaces)

\* base value of three of a kind
TripleBase(face) == IF face = 1 THEN 1000 ELSE face * 100

\* TripleLoop with a fault: every die of a face that occurs at least three
\* times is consumed by the triple
RECURSIVE TripleLoopAll(_, _)
TripleLoopAll(face, st) ==
  IF face > NumFaces THEN st
  ELSE LET c == st.cnt[face] IN
       IF c >= 3
         THEN TripleLoopAll(face + 1,
                [cnt   |-> [st.cnt EXCEPT ![face] = 0],
                 score |-> st.score + TripleBase(face),
                 used  |-> CounterAdd(st.used, face, c)])
         ELSE TripleLoopAll(face + 1, st)

\* for face in range(1, 7): three of a kind consumes exactly three dice
RECURSIVE TripleLoop(_, _)
TripleLoop(face, st) ==
  IF face > NumFaces THEN st
  ELSE LET c == st.cnt[face] IN
       IF c >= 3
         THEN TripleLoop(face + 1,
                [cnt   |-> [st.cnt EXCEPT ![face] = c - 3],
                 score |-> st.score + TripleBase(face),
                 used  |-> CounterAdd(st.used, face, 3)])
         ELSE TripleLoop(face + 1, st)

\* singles: the remaining dice of `face` score `each` points apiece
Singles(st, face, each) ==
  IF st.cnt[face] > 0
    THEN [st EXCEPT !.score = @ + st.cnt[face] * each,
                    !.used  = CounterAdd(@, face, st.cnt[face])]
    ELSE st

\* score_dice(dice) -> (score, used)
score_dice(dice) ==
  LET s0 == [cnt |-> Counter(dice), score |-> 0, used |-> <<>>]
      s1 == TripleLoop(1, s0)
      s2 == Singles(s1, 1, 100)
      s3 == Singles(s2, 5, 50)
  IN  [score |-> s3.score, used |-> s3.used]

\* positions of `face` in the roll, 0-based, in increasing order
\* (face_positions[face])
Positions(roll, face) == {i \in 0..(Len(roll) - 1) : roll[i + 1] = face}

\* positions[:k] of an increasing list given as a set
FirstOf(pos, k) == {i \in pos : Cardinality({j \in pos : j < i}) < k}

\* ScoringIndices with a fault: every die of a face that comes up three
\* times or more is a scoring position
ScoringIndicesAllOfKind(roll) ==
  UNION { LET pos == Positions(roll, face)
          IN  IF Cardinality(pos) >= 3 \/ face \in {1, 5} THEN pos ELSE {}
        : face \in {roll[i] : i \in DOMAIN roll} }

\* scoring_indices: the positions of the roll that may be chosen
ScoringIndices(roll) ==
  UNION { LET pos == Positions(roll, face)
              c   == Cardinality(pos)
          IN  IF c >= 3
                THEN FirstOf(pos, 3) \cup
                     (IF face \in {1, 5} /\ c > 3 THEN pos \ FirstOf(pos, 3) ELSE {})
                ELSE IF face \in {1, 5} THEN pos ELSE {}
        : face \in {roll[i] : i \in DOMAIN roll} }

\* -------------------------------------------------------------- card deck
\* the deck composition of CardDeckSpecial.__init__ (line 39)
Composition ==
  [bonus300 |-> 6, bonus400 |-> 4, bonus500 |-> 2,
   no_dice |-> 3, must_bust |-> 3, double_trouble |-> 2]

\* the seeds the matches are created with (--seed)
Seeds == {1, 5, 11, 12}

\* self.cards after __init__: the fixed 20-card list shuffled by
\* random.Random(seed).shuffle; the lists are the ones CPython produces
Shuffled(sd) ==
  CASE sd = 1 ->
    <<"bonus500", "bonus300", "must_bust", "double_trouble", "bonus400",
      "bonus300", "must_bust", "bonus300", "must_bust", "bonus400",
      "bonus500", "no_dice", "no_dice", "no_dice", "bonus400",
      "bonus300", "bonus400", "bonus300", "double_trouble", "bonus300">>
    [] sd = 5 ->
    <<"bonus300", "bonus400", "bonus400", "bonus300", "no_dice",
      "must_bust", "double_trouble", "bonus300", "bonus300", "must_bust",
      "bonus500", "bonus300", "no_dice", "bonus400", "no_dice",
      "bonus300", "must_bust", "bonus500", "bonus400", "double_trouble">>
    [] sd = 11 ->
    <<"bonus300", "must_bust", "bonus300", "bonus300", "bonus500",
      "no_dice", "bonus300", "bonus300", "must_bust", "bonus400",
      "bonus500", "bonus400", "bonus400", "no_dice", "bonus300",
      "bonus400", "double_trouble", "double_trouble", "must_bust", "no_dice">>
    [] sd = 12 ->
    <<"bonus300", "bonus400", "no_dice", "double_trouble", "bonus300",
      "bonus500", "no_dice", "no_dice", "bonus300", "must_bust",
      "double_trouble", "bonus400", "bonus300", "bonus300", "bonus400",
      "bonus300", "bonus500", "must_bust", "bonus400", "must_bust">>

\* draw with a fault: the empty deck is rebuilt without going back to the
\* seed, so it comes back in another order
drawNoReseed(cards, sd) ==
  LET c == IF cards = <<>> THEN Shuffled(CHOOSE s \in Seeds : s # sd)
           ELSE cards
  IN  [card |-> c[Len(c)], cards |-> SubSeq(c, 1, Len(c) - 1)]

\* CardDeckSpecial.draw: rebuild from the seed when empty, then pop()
draw(cards, sd) ==
  LET c == IF cards = <<>> THEN Shuffled(sd) ELSE cards
  IN  [card |-> c[Len(c)], cards |-> SubSeq(c, 1, Len(c) - 1)]

\* int(special.replace('bonus', ''))
BonusAmount(special) ==
  CASE special = "bonus300" -> 300
    [] special = "bonus400" -> 400
    [] special = "bonus500" -> 500
    [] OTHER -> 0

\* SpecialState with a fault: the no_dice flag is never set
SpecialStateNoSkip(special) ==
  [bonus          |-> BonusAmount(special),
   no_dice        |-> FALSE,
   must_bust      |-> special = "must_bust",
   double_trouble |-> special = "double_trouble",
   bonus_added    |-> FALSE]

\* special_state as set up from the drawn card; the key 'bonus_added' is
\* absent until the bonus is applied, and .get() then reads as false
SpecialState(special) ==
  [bonus          |-> BonusAmount(special),
   no_dice        |-> special = "no_dice",
   must_bust      |-> special = "must_bust",
   double_trouble |-> special = "double_trouble",
   bonus_added    |-> FALSE]

\* make_players(n, ai_count): the last ai_count players are AI
make_players(n, ai_count) ==
  [i \in 1..n |-> IF ai_count > 0 THEN i > n - ai_count ELSE FALSE]

\* ------------------------------------------------------------ dice roller
\* The turn logic reads a roll only through the per-face counts and through
\* positions the player names, so it is the same for every ordering of the
\* same dice; the state machine draws each roll in nondecreasing order.
\* (SpecScore below applies the scorer to the rolls in every order.)
RECURSIVE SortedRolls(_, _)
SortedRolls(n, lo) ==
  IF n = 0 THEN {<<>>}
  ELSE UNION {{<<f>> \o r : r \in SortedRolls(n - 1, f)} : f \in lo..NumFaces}

\* Game.roll(n): n values of randint(1, 6); range(n) is empty for n <= 0
Rolls(n) == IF n <= 0 THEN {<<>>} ELSE SortedRolls(n, 1)

\* every roll of 1..6 dice, in every order
AllRolls == UNION {[1..n -> Faces] : n \in 1..NumDice}

\* ------------------------------------------------------- the choose prompt
\* strictly increasing lists over lo..n: the selections that name each die
\* at most once
RECURSIVE Ascending(_, _)
Ascending(lo, n) ==
  {<<>>} \cup UNION {{<<p>> \o t : t \in Ascending(p + 1, n)} : p \in lo..n}

\* one 1-based number p written m times
Repeat(p, m) == [i \in 1..m |-> p]

\* the numeric answers tried at "Enter 1-based indices" for a roll of n dice:
\* every selection of distinct dice, and one number (0 and n+1 included)
\* written up to MaxRepeat times
PartsInputs(n) ==
  Ascending(1, n) \cup {Repeat(p, m) : p \in 0..(n + 1), m \in 1..MaxRepeat}

\* ------------------------------------------------------------------ state
VARIABLES
  seed,           \* Game(seed=...) and CardDeckSpecial.seed
  interactive,    \* the `interactive` argument of Game.run
  is_ai,          \* Player.is_ai of each player
  points,         \* Player.points of each player
  deck,           \* CardDeckSpecial.cards
  rng,            \* number of randint calls made on Game.rng so far
  cur,            \* the player of the `for player in self.players` loop
  pc,             \* control position (see the head of the module)
  special,        \* the card drawn for the turn
  special_state,  \* the flags of the card
  dice_left,      \* play_turn locals
  turn_points,
  fills,
  roll,           \* the roll shown at the keep/choose/bank prompt; <<>> when
                  \* control is elsewhere (the local is then not read again
                  \* before line 189 assigns it)
  ret,            \* the value play_turn returned
  turns,          \* history: play_turn calls so far
  before,         \* history: points of the turn's player when it began
  kept,           \* history: sum of taken_score over the turn's picks
  taken,          \* history: sum of taken_count over the turn's picks
  last,           \* history: what the latest step did
  arg,            \* SpecScore: the dice handed to score_dice
  res,            \* SpecScore: what score_dice returned
  sel,            \* SpecScore: the scoring_indices computed for the dice
  drawn           \* SpecDeck: the cards drawn so far, in order

config == <<seed, interactive, is_ai>>
match  == <<points, deck, rng, cur, turns>>
locals == <<special, special_state, dice_left, turn_points, fills, roll, ret>>
hist   == <<before, kept, taken, last>>
pure   == <<arg, res, sel, drawn>>
vars   == <<config, match, locals, hist, pure, pc>>

NoResult == [score |-> -1, used |-> <<>>]
\* no scoring_indices computed yet (positions are 0-based, never negative)
NoSel == {-1}

\* the command lines tried: a played game of one human and one AI, and
\* simulations (--simulate) of 0, 1 and 2 AI players
Modes ==
  {[interactive |-> TRUE, ai_count |-> 1]} \cup
  {[interactive |-> FALSE, ai_count |-> n] : n \in 0..NumPlayers}

\* Game.__init__ for the players of make_players; main() runs a simulation
\* with interactive=False and a played game with interactive=True
InitGame ==
  /\ seed \in Seeds
  /\ \E m \in Modes :
       /\ interactive = m.interactive
       /\ is_ai = make_players(NumPlayers, m.ai_count)
  /\ points = [p \in Players |-> 0]
  /\ deck = Shuffled(seed)
  /\ rng = 0
  /\ cur = 1
  /\ pc = "call"
  /\ special = "none"
  /\ special_state = SpecialState("none")
  /\ dice_left = NumDice
  /\ turn_points = 0
  /\ fills = 0
  /\ roll = <<>>
  /\ ret = 0
  /\ turns = 0
  /\ before = 0
  /\ kept = 0
  /\ taken = 0
  /\ last = "init"

Init == InitGame /\ arg = <<>> /\ res = NoResult /\ sel = NoSel /\ drawn = <<>>

\* `player.is_ai or not interactive`: the turn is played without prompts
Automated(p) == is_ai[p] \/ ~interactive

\* ----------------------------------------------------------- turn helpers
\* Pick with a fault: the bonus is added at every fill
PickBonusEveryFill(tp, dl, fl, ss, taken_score, taken_count) ==
  LET tp1 == tp + taken_score
      dl1 == dl - taken_count
  IN  IF dl1 = 0
        THEN [turn_points   |-> tp1 + ss.bonus,
              dice_left     |-> NumDice,
              fills         |-> fl + 1,
              special_state |-> [ss EXCEPT !.bonus_added = (ss.bonus # 0)]]
        ELSE [turn_points |-> tp1, dice_left |-> dl1, fills |-> fl,
              special_state |-> ss]

\* Pick with a fault: a pick that overdraws the dice counts as a fill too
PickFillOverdrawn(tp, dl, fl, ss, taken_score, taken_count) ==
  LET tp1 == tp + taken_score
      dl1 == dl - taken_count
      add == ss.bonus # 0 /\ ~ss.bonus_added
  IN  IF dl1 <= 0
        THEN [turn_points   |-> IF add THEN tp1 + ss.bonus ELSE tp1,
              dice_left     |-> NumDice,
              fills         |-> fl + 1,
              special_state |-> IF add THEN [ss EXCEPT !.bonus_added = TRUE]
                                       ELSE ss]
        ELSE [turn_points |-> tp1, dice_left |-> dl1, fills |-> fl,
              special_state |-> ss]

\* taking dice worth taken_score (lines 216-229 for an automated player,
\* the same statements at 320-331 for an interactive one): a fill counts,
\* adds the bonus once and gives six new dice
Pick(tp, dl, fl, ss, taken_score, taken_count) ==
  LET tp1 == tp + taken_score
      dl1 == dl - taken_count
      add == ss.bonus # 0 /\ ~ss.bonus_added
  IN  IF dl1 = 0
        THEN [turn_points   |-> IF add THEN tp1 + ss.bonus ELSE tp1,
              dice_left     |-> NumDice,
              fills         |-> fl + 1,
              special_state |-> IF add THEN [ss EXCEPT !.bonus_added = TRUE]
                                       ELSE ss]
        ELSE [turn_points |-> tp1, dice_left |-> dl1, fills |-> fl,
              special_state |-> ss]

\* the gate of the keep/choose/bank prompt (line 287)
BankRejected(ss, fl) == ss.double_trouble /\ fl < 2

\* AIBankCredit with a fault: the bonus is credited whether or not the turn
\* filled
AIBankCreditAlways(tp, ss, fl) == tp + ss.bonus

\* AIBankCredit with a fault: the bank credits nothing
AIBankCreditNothing(tp, ss, fl) == 0

\* what an AI bank adds to player.points (lines 236-238)
AIBankCredit(tp, ss, fl) ==
  tp + (IF ss.bonus # 0 /\ fl > 0 THEN ss.bonus ELSE 0)

\* BustCredit with a fault: a bust keeps the turn points under every card
BustCreditAlways(tp, ss) == tp

\* what a bust adds to player.points (lines 200-204)
BustCredit(tp, ss) == IF ss.must_bust THEN tp ELSE 0

\* the verdict of lines 302-315 on the numbers typed at the choose prompt
Selection(r, scoring_indices, parts) ==
  LET idx    == [i \in DOMAIN parts |-> parts[i] - 1]
      chosen == [i \in DOMAIN idx |-> r[idx[i] + 1]]
  IN  IF \E i \in DOMAIN idx : idx[i] < 0 \/ idx[i] >= Len(r)
        THEN [ok |-> FALSE, why |-> "range", taken_score |-> 0, taken_count |-> 0]
      ELSE IF ~({idx[i] : i \in DOMAIN idx} \subseteq scoring_indices)
        THEN [ok |-> FALSE, why |-> "nonscoring", taken_score |-> 0, taken_count |-> 0]
      ELSE IF score_dice(chosen).score = 0
        THEN [ok |-> FALSE, why |-> "zero", taken_score |-> 0, taken_count |-> 0]
      ELSE [ok |-> TRUE, why |-> "", taken_score |-> score_dice(chosen).score,
            taken_count |-> Len(chosen)]

\* ---------------------------------------------------------------- actions
\* play_turn returns v to Game.run
Return(v) == pc' = "returned" /\ ret' = v /\ roll' = <<>>

\* player.points += n
Credit(n) == points' = [points EXCEPT ![cur] = @ + n]

\* the turn state takes the values of a Pick
Take(p) ==
  /\ turn_points' = p.turn_points
  /\ dice_left' = p.dice_left
  /\ fills' = p.fills
  /\ special_state' = p.special_state

\* control is back at line 188 with the turn state as it is
Reroll(why) ==
  /\ pc' = "loop"
  /\ roll' = <<>>
  /\ last' = why
  /\ UNCHANGED <<config, match, special, special_state, dice_left,
                 turn_points, fills, ret, before, kept, taken, pure>>

\* lines 150-186: draw the card; no_dice returns 0 at once
BeginTurn ==
  /\ pc = "call"
  /\ LET d  == draw(deck, seed)
         ss == SpecialState(d.card)
     IN  /\ deck' = d.cards
         /\ special' = d.card
         /\ special_state' = ss
         /\ IF ss.no_dice
              THEN /\ Return(0)
                   /\ last' = "skipped"
                   /\ UNCHANGED <<dice_left, turn_points, fills>>
              ELSE /\ pc' = "loop"
                   /\ dice_left' = NumDice
                   /\ turn_points' = 0
                   /\ fills' = 0
                   /\ last' = "started"
                   /\ UNCHANGED <<roll, ret>>
  /\ before' = points[cur]
  /\ kept' = 0
  /\ taken' = 0
  /\ UNCHANGED <<config, points, rng, cur, pure>>

\* a play_turn call, counted
StartTurn ==
  /\ turns < MaxTurns
  /\ BeginTurn
  /\ turns' = turns + 1

\* line 189 can run: the match has dice values left to draw
CanRoll ==
  /\ pc = "loop"
  /\ rng + (IF dice_left > 0 THEN dice_left ELSE 0)
       <= (IF Automated(cur) THEN MaxAutoDraws ELSE MaxDraws)

\* lines 195-209: the roll scores 0 and the turn ends
Bust ==
  /\ Credit(BustCredit(turn_points, special_state))
  /\ Return(0)
  /\ last' = "busted"
  /\ UNCHANGED <<special_state, dice_left, turn_points, fills, kept, taken>>

\* AIBanks with a fault: the threshold bank does not ask for an AI player
AIBanksAnyone(ai, tp) == tp >= ai_threshold_points

\* the AI bank decision (line 234)
AIBanks(ai, tp) == ai /\ tp >= ai_threshold_points

\* lines 212-244: an automated player takes all scoring dice of the roll
\* and, if AI and at the threshold, banks
AutoTake(sc) ==
  LET p == Pick(turn_points, dice_left, fills, special_state,
                sc.score, SumValues(sc.used))
  IN  /\ Take(p)
      /\ kept' = kept + sc.score
      /\ taken' = taken + SumValues(sc.used)
      /\ IF AIBanks(is_ai[cur], p.turn_points)
           THEN /\ Credit(AIBankCredit(p.turn_points, p.special_state, p.fills))
                /\ Return(p.turn_points)
                /\ last' = "banked"
           ELSE /\ last' = "picked"
                /\ UNCHANGED <<points, pc, roll, ret>>

\* lines 246-282: an interactive player is shown the scoring roll
Show(r) ==
  /\ roll' = r
  /\ pc' = "prompt"
  /\ last' = "rolled"
  /\ UNCHANGED <<points, special_state, dice_left, turn_points, fills, ret,
                 kept, taken>>

\* lines 189-282: one pass of the loop from the roll to the return, the
\* next pass or the prompt
RollFrom(rolls) ==
  /\ pc = "loop"
  /\ \E r \in rolls :
       LET sc == score_dice(r)
       IN  IF sc.score = 0 THEN Bust
           ELSE IF Automated(cur) THEN AutoTake(sc)
           ELSE Show(r)
  /\ UNCHANGED <<config, deck, cur, turns, special, before, pure>>

\* a pass of the loop, its randint calls counted
Roll ==
  /\ CanRoll
  /\ RollFrom(Rolls(dice_left))
  /\ rng' = rng + (IF dice_left > 0 THEN dice_left ELSE 0)

\* lines 285-293: 'b' at the keep/choose/bank prompt
ChooseBank ==
  /\ pc = "prompt"
  /\ IF BankRejected(special_state, fills)
       THEN Reroll("bank_rejected")
       ELSE /\ Credit(turn_points)
            /\ Return(turn_points)
            /\ last' = "banked"
            /\ UNCHANGED <<config, deck, rng, cur, turns, special,
                           special_state, dice_left, turn_points, fills,
                           before, kept, taken, pure>>

\* after an accepted pick the player is asked to roll again or bank
Picked(taken_score, taken_count) ==
  /\ Take(Pick(turn_points, dice_left, fills, special_state,
               taken_score, taken_count))
  /\ kept' = kept + taken_score
  /\ taken' = taken + taken_count
  /\ pc' = "cont"
  /\ roll' = <<>>
  /\ last' = "picked"
  /\ UNCHANGED <<config, match, special, ret, before, pure>>

\* lines 295-297, 320-334: 'k' keeps all scoring dice
ChooseKeep ==
  /\ pc = "prompt"
  /\ LET sc == score_dice(roll)
     IN  Picked(sc.score, SumValues(sc.used))

\* lines 298-315, 320-334: 'c' and a list of numbers
ChooseIndices ==
  /\ pc = "prompt"
  /\ LET scoring_indices == ScoringIndices(roll)
     IN  \E parts \in PartsInputs(Len(roll)) :
           LET v == Selection(roll, scoring_indices, parts)
           IN  IF v.ok THEN Picked(v.taken_score, v.taken_count)
                       ELSE Reroll(v.why)

\* lines 316-318: 'c' and something int() cannot parse
ChooseNonNumeric ==
  /\ pc = "prompt"
  /\ Reroll("valueerror")

\* line 340 not taken: 'r' at the roll-again-or-bank prompt
ContinueRoll ==
  /\ pc = "cont"
  /\ pc' = "loop"
  /\ last' = "continued"
  /\ UNCHANGED <<config, match, locals, before, kept, taken, pure>>

\* lines 340-344: 'b' at the roll-again-or-bank prompt
ContinueBank ==
  /\ pc = "cont"
  /\ Credit(turn_points)
  /\ Return(turn_points)
  /\ last' = "banked"
  /\ UNCHANGED <<config, deck, rng, cur, turns, special, special_state,
                 dice_left, turn_points, fills, before, kept, taken, pure>>

\* Wins with a fault: the threshold itself does not win
WinsAbove(pts) == pts > points_to_win

\* the win condition (line 351)
Wins(pts) == pts >= points_to_win

\* lines 349-354: the win check after the turn, then the next player
RunCheck ==
  /\ pc = "returned"
  /\ IF Wins(points[cur])
       THEN pc' = "done" /\ cur' = cur
       ELSE pc' = "call" /\ cur' = (cur % NumPlayers) + 1
  /\ UNCHANGED <<config, points, deck, rng, turns, locals, hist, pure>>

Next ==
  \/ StartTurn
  \/ Roll
  \/ ChooseBank
  \/ ChooseKeep
  \/ ChooseIndices
  \/ ChooseNonNumeric
  \/ ContinueRoll
  \/ ContinueBank
  \/ RunCheck

Spec == Init /\ [][Next]_vars

\* ------------------------------------------------- the scorer on its own
\* score_dice applied to one roll of 1..6 dice, in any order
InitScore ==
  /\ arg \in AllRolls
  /\ res = NoResult
  /\ seed = 1
  /\ interactive = FALSE
  /\ is_ai = make_players(NumPlayers, 0)
  /\ points = [p \in Players |-> 0]
  /\ deck = Shuffled(seed)
  /\ rng = 0
  /\ cur = 1
  /\ pc = "call"
  /\ special = "none"
  /\ special_state = SpecialState("none")
  /\ dice_left = NumDice
  /\ turn_points = 0
  /\ fills = 0
  /\ roll = <<>>
  /\ ret = 0
  /\ turns = 0
  /\ before = 0
  /\ kept = 0
  /\ taken = 0
  /\ last = "init"
  /\ sel = NoSel
  /\ drawn = <<>>

Score ==
  /\ res = NoResult
  /\ res' = score_dice(arg)
  /\ UNCHANGED <<config, match, locals, hist, pc, arg, sel, drawn>>

\* lines 264-279 applied to the dice
Eligible ==
  /\ sel = NoSel
  /\ sel' = ScoringIndices(arg)
  /\ UNCHANGED <<config, match, locals, hist, pc, arg, res, drawn>>

NextScore == Score \/ Eligible

SpecScore == InitScore /\ [][NextScore]_vars

\* ================================================================= claims

\* C1: in a DoubleTrouble turn no bank ends the turn while fewer than 2
\* fills have been completed, whichever prompt or policy banks.
C1_NoBankBeforeTwoFills ==
  (pc = "returned" /\ last = "banked" /\ special_state.double_trouble)
    => fills >= 2

\* C2: in a MustBust turn no bank succeeds; the turn ends only by busting.
C2_MustBustNeverBanks ==
  (pc = "returned" /\ special_state.must_bust) => last # "banked"

\* C3: a bank raises the player's cumulative score by exactly the turn's
\* running points (the bonus contained once if a fill occurred), for an
\* automated player as for an interactive one.
C3_BankCreditsTurnPoints ==
  (pc = "returned" /\ last = "banked")
    => points[cur] = before + turn_points

\* C4: a bank rejected by the DoubleTrouble gate leaves turn points, dice
\* remaining, fills and the cumulative score as they were, and no new dice
\* are rolled after it: the player is prompted again on the same roll.
C4_RejectedBankKeepsRoll ==
  [][ /\ (last' = "bank_rejected"
            => /\ turn_points' = turn_points /\ dice_left' = dice_left
               /\ fills' = fills /\ points' = points /\ rng' = rng)
      /\ (last = "bank_rejected"
            => /\ rng' = rng /\ points' = points /\ pc' # "returned") ]_vars

\* the answers the choose path rejects
PickRejections == {"range", "nonscoring", "zero", "valueerror"}

\* C5: a rejected dice selection leaves turn points, dice remaining and
\* fills as they were, and no new dice are rolled after it: the player is
\* prompted again on the same roll.
C5_RejectedPickKeepsRoll ==
  [][ /\ (last' \in PickRejections
            => /\ turn_points' = turn_points /\ dice_left' = dice_left
               /\ fills' = fills /\ rng' = rng)
      /\ (last \in PickRejections
            => /\ rng' = rng /\ pc' # "returned") ]_vars

C7_BonusOnce ==
  special_state.bonus # 0
    => /\ turn_points = kept + (IF fills >= 1 THEN special_state.bonus ELSE 0)
       /\ special_state.bonus_added <=> fills >= 1

C7_Witness == special_state.bonus # 0 /\ fills >= 2

\* C8: a roll that scores 0 ends the turn; the cumulative score then rises
\* by the turn's points under MustBust and is unchanged under any other
\* card.
C8_BustCredit ==
  (pc = "returned" /\ last = "busted")
    => points[cur] = before + (IF special = "must_bust" THEN turn_points ELSE 0)

C8_Witness ==
  /\ pc = "returned" /\ last = "busted"
  /\ special = "must_bust" /\ turn_points > 0

\* C9: a NoDice turn ends before any roll: one card leaves the deck, the
\* dice random source is not advanced, every score is unchanged and the
\* turn yields 0.
C9_NoDiceSkips ==
  [][ (pc = "call" /\ pc' # "call" /\ special' = "no_dice")
        => /\ pc' = "returned"
           /\ ret' = 0
           /\ rng' = rng
           /\ points' = points
           /\ LET full == IF deck = <<>> THEN Shuffled(seed) ELSE deck
              IN  deck' = SubSeq(full, 1, Len(full) - 1) ]_vars

C9_Witness == pc = "returned" /\ last = "skipped" /\ special = "no_dice"

\* what the claim says of a roll: occurrences of a face, dice its triple
\* consumes, dice left over
Occurs(dice, f) == Cardinality({i \in DOMAIN dice : dice[i] = f})
TripleOf(dice, f) == IF Occurs(dice, f) >= 3 THEN 3 ELSE 0
LeftOver(dice, f) == Occurs(dice, f) - TripleOf(dice, f)
Contributing(dice, f) ==
  TripleOf(dice, f) + (IF f \in {1, 5} THEN LeftOver(dice, f) ELSE 0)

ClaimedScore(dice) ==
  LET t(f) == IF TripleOf(dice, f) = 3
                THEN (IF f = 1 THEN 1000 ELSE f * 100) ELSE 0
  IN  t(1) + t(2) + t(3) + t(4) + t(5) + t(6)
        + 100 * LeftOver(dice, 1) + 50 * LeftOver(dice, 5)

ClaimedUsed(dice) ==
  [f \in {g \in Faces : Contributing(dice, g) > 0} |-> Contributing(dice, f)]

\* C10: score_dice scores one triple per face with at least 3 dice (1000
\* for 1s, face*100 otherwise), consuming exactly 3, plus 100 per remaining
\* 1 and 50 per remaining 5; the breakdown counts exactly the contributing
\* dice per face.
C10_ScoreDice ==
  res # NoResult
    => /\ res.score = ClaimedScore(arg)
       /\ res.used = ClaimedUsed(arg)

C10_Witness ==
  /\ res # NoResult
  /\ Len(arg) = NumDice
  /\ \A i \in DOMAIN arg : arg[i] = arg[1]

\* C11: whenever a turn is about to start or is under way every player's
\* score is below points_to_win; once run has returned, the player whose
\* turn just ended is the only one at or above points_to_win, and no
\* further step (so no further turn) can follow.
C11_FirstWinnerEndsMatch ==
  /\ pc \in {"call", "loop", "prompt", "cont"}
       => \A p \in Players : points[p] < points_to_win
  /\ pc = "done"
       => /\ points[cur] >= points_to_win
          /\ \A p \in Players \ {cur} : points[p] < points_to_win
          /\ ~ENABLED Next

\* the second player wins after the first player's turn came to nothing
C11_Witness == pc = "done" /\ cur = 2 /\ points[cur] >= points_to_win

\* ===== the match of automated players, without a bound on its length
\* (lines 347-354 around lines 188-244): the counters turns and rng are not
\* kept here, so that the state space is finite

\* the seeds of the unbounded match
LiveSeeds == {12}

\* main() with --simulate and ai_count = players: every player is an AI
InitLive ==
  /\ Init
  /\ seed \in LiveSeeds
  /\ ~interactive
  /\ \A p \in Players : is_ai[p]

TurnLive == BeginTurn /\ UNCHANGED turns

\* the dice of the unbounded match: k dice show a 1 and the others show the
\* first faces of Junk, which score nothing, so that a roll of any number
\* of dice can bust and a roll scores through its 1s, in steps of 100
Junk == <<2, 2, 3, 3, 4, 4>>

LiveRoll(n, k) == [i \in 1..n |-> IF i <= k THEN 1 ELSE Junk[i - k]]

LiveRolls(n) == IF n <= 0 THEN {<<>>} ELSE {LiveRoll(n, k) : k \in 0..n}

RollLive == RollFrom(LiveRolls(dice_left)) /\ UNCHANGED rng

NextLive ==
  \/ TurnLive
  \/ RollLive
  \/ RunCheck

\* WF_vars(RollLive), with ENABLED <<RollLive>>_vars written out: every
\* step of NextLive taken at pc = "loop" is a RollLive step, and one is
\* always possible there
RollFair == []<>(pc # "loop") \/ []<><<pc = "loop">>_vars

\* strong fairness of the RollLive steps that bank, at the first roll of a
\* turn, where three 1s reach the AI threshold whatever the card: if the
\* first roll of a turn comes again and again, a roll that banks is not
\* withheld forever
BankFair ==
  \/ <>[]~(pc = "loop" /\ dice_left = NumDice)
  \/ []<><<pc = "loop" /\ last' = "banked">>_vars

\* run keeps calling play_turn and play_turn keeps rolling (weak fairness of
\* the steps); the dice are random, so a roll good enough to bank is not
\* withheld forever (strong fairness)
SpecLive ==
  /\ InitLive /\ [][NextLive]_vars
  /\ WF_vars(TurnLive) /\ WF_vars(RunCheck)
  /\ RollFair
  /\ BankFair

InitDeck == Init /\ interactive

\* one call of CardDeckSpecial.draw
DrawCard ==
  /\ Len(drawn) < MaxDeckDraws
  /\ LET d == draw(deck, seed)
     IN  /\ deck' = d.cards
         /\ drawn' = Append(drawn, d.card)
  /\ UNCHANGED <<config, points, rng, cur, turns, locals, hist, pc, arg, res,
                 sel>>

NextDeck == DrawCard

SpecDeck == InitDeck /\ [][NextDeck]_vars

\* how many of the first DeckSize cards drawn are the card c
DrawnOf(c) == Cardinality({n \in 1..DeckSize : drawn[n] = c})

\* C13: a draw is always possible; with a fixed seed the card of draw
\* n + 20 is the card of draw n; the first 20 cards drawn are 6 bonus300,
\* 4 bonus400, 2 bonus500, 3 no_dice, 3 must_bust and 2 double_trouble.
C13_DeckCycles ==
  /\ Len(drawn) < MaxDeckDraws => ENABLED DrawCard
  /\ \A n \in 1..Len(drawn) :
       n + DeckSize <= Len(drawn) => drawn[n + DeckSize] = drawn[n]
  /\ Len(drawn) >= DeckSize
       => \A c \in DOMAIN Composition : DrawnOf(c) = Composition[c]

\* the deck has been emptied and rebuilt twice
C13_Witness == Len(drawn) > DeckSize + DeckSize /\ Len(deck) = DeckSize - 1

\* C15: whenever play_turn has returned, the value it returned is the
\* amount by which the player's score changed during the turn (0 after a
\* normal bust, the turn's points after a bust under must_bust).
C15_ReturnIsScoreChange ==
  pc = "returned" => ret = points[cur] - before

\* C16: the dice left to roll stay within 0..6 and every roll is a roll of
\* 1 to 6 dice, also after an index list that names a die more than once.
C16_DiceInRange ==
  /\ dice_left \in 0..NumDice
  /\ pc = "loop" => dice_left \in 1..NumDice
  /\ pc = "prompt" => Len(roll) \in 1..NumDice

RECURSIVE DiceAt(_, _, _)
DiceAt(r, idx, i) ==
  IF i > Len(r) THEN <<>>
  ELSE (IF (i - 1) \in idx THEN <<r[i]>> ELSE <<>>) \o DiceAt(r, idx, i + 1)

\* C18: for every roll of 1 to 6 dice the scoring positions are as many as
\* the dice score_dice consumed, the dice at those positions score what
\* the whole roll scores, and there is none exactly when the roll scores 0;
\* so choosing all of them takes what 'keep all' takes.
C18_ScoringPositions ==
  (res # NoResult /\ sel # NoSel /\ Len(arg) >= 1) =>
     /\ Cardinality(sel) = SumValues(res.used)
     /\ score_dice(DiceAt(arg, sel, 1)).score = res.score
     /\ sel = {} <=> res.score = 0

\* four 2s among the dice: the fourth is not a scoring position
C18_Witness ==
  /\ res # NoResult /\ sel # NoSel
  /\ Cardinality(Positions(arg, 2)) = 4
  /\ Cardinality(sel) = 3

\* C19: an accepted pick at the keep/choose/bank prompt counts each die at
\* most once: the points it adds are at most score_dice of the whole roll
\* and the dice it removes are at most the roll's scoring positions.
C19_PickWithinRoll ==
  [][ (pc = "prompt" /\ last' = "picked") =>
        /\ kept' - kept <= score_dice(roll).score
        /\ taken' - taken <= Cardinality(ScoringIndices(roll)) ]_vars

\* C20: in a simulation a player who is not an AI never banks: the turn
\* ends by a bust or is skipped, and the player's score grows only in a
\* turn whose card is must_bust.
C20_SimulatedHumanNeverBanks ==
  (pc = "returned" /\ ~interactive /\ ~is_ai[cur]) =>
     /\ last \in {"busted", "skipped"}
     /\ points[cur] # before => special = "must_bust"

\* a simulated player who is not an AI busted under must_bust with points
C20_Witness ==
  /\ pc = "returned" /\ ~interactive /\ ~is_ai[cur]
  /\ last = "busted" /\ special = "must_bust"
  /\ points[cur] > before

====
